---- MODULE Spec2Model ----
(***************************************************************************)
(* Model of scraper.py: one run of the script.  main creates the output    *)
(* directory and calls get_link_data, which collects the links of a        *)
(* listing page (assemble_links), downloads each (download_file) and       *)
(* writes it (write_file); main prints the summary; the module-level       *)
(* statements after the __main__ block then run before the process exits.  *)
(*                                                                         *)
(* Strings are sequences of one-character strings, byte strings are        *)
(* sequences of small integers.  The network and the file system are the   *)
(* environment: every GET and every open/write draws its outcome with \E.  *)
(***************************************************************************)
EXTENDS Integers, Sequences, FiniteSets, TLC

\* ---------------------------------------------------------------- bounds
MaxAnchors == 3      \* anchors on the listing page

\* ------------------------------------------------------------ input sets
RECURSIVE SeqsUpTo(_, _)
SeqsUpTo(S, n) ==
    IF n = 0 THEN {<<>>}
    ELSE LET r == SeqsUpTo(S, n - 1)
         IN  r \cup {Append(s, x) : s \in {t \in r : Len(t) = n - 1}, x \in S}

\* Response bodies: empty, one byte, two bytes.
Bodies == {<<>>, <<1>>, <<1, 0>>}

\* An <a> element: has = FALSE when node.get("href") is None.
HrefValues == {<<>>, <<"/", "a">>, <<"/", "b">>, <<"/", "b", "/", "a">>}
AnchorNodes ==
    {[has |-> FALSE, href |-> <<>>]} \cup {[has |-> TRUE, href |-> h] : h \in HrefValues}
Pages == SeqsUpTo(AnchorNodes, MaxAnchors)

\* The command line: the listing URL (as urlparse splits it) and the filter.
ListingUrl == [scheme |-> <<"s">>, netloc |-> <<"x">>, path |-> <<"/", "l">>]
Filters == {<<"b">>, <<"x">>}

\* Exceptions a GET can end in.  The first three derive from httpx.HTTPError,
\* as does the HTTPStatusError of raise_for_status; httpx.InvalidURL does not.
TransportErrors == {"ConnectError", "ReadTimeout", "TooManyRedirects"}
GetErrors == TransportErrors \cup {"InvalidURL"}

\* Errors of open(..., "wb") and of the write that follows it.
OpenErrors == {"PermissionError", "FileNotFoundError"}
WriteErrors == {"NoSpaceLeft"}

\* ------------------------------------------------------- pure functions
\* Python's `sub in s` on strings.
StrIn(sub, s) ==
    \E k \in 0..(Len(s) - Len(sub)) : SubSeq(s, k + 1, k + Len(sub)) = sub

\* urlunparse([scheme, netloc, "", "", "", ""])
urlunparse(scheme, netloc) == scheme \o <<":", "/", "/">> \o netloc

NoPrefix == [given |-> FALSE, value |-> <<>>]

\* prefix + node.get("href") for node in soup.find_all("a") if node.get("href")
RECURSIVE href_links(_, _)
href_links(prefix, nodes) ==
    IF nodes = <<>> THEN <<>>
    ELSE LET node == Head(nodes)
             rest == href_links(prefix, Tail(nodes))
         IN  IF node.has /\ node.href # <<>>
             THEN <<prefix \o node.href>> \o rest
             ELSE rest

filter_links_all(links_, contains_) == links_

\* [i for i in links if contains in i]
filter_links(links_, contains_) ==
    SelectSeq(links_, LAMBDA i : StrIn(contains_, i))

\* assemble_links, given the parsed page the GET returned.
assemble_links(url_, contains_, prefix, nodes) ==
    LET p == IF prefix.given /\ prefix.value # <<>>
             THEN prefix.value
             ELSE urlunparse(url_.scheme, url_.netloc)
    IN  filter_links(href_links(p, nodes), contains_)

listing_get_swallow(resp) == [raised |-> FALSE, nodes |-> <<>>]

\* page = httpx.get(url).text : no try, no raise_for_status.
listing_get(resp) ==
    [raised |-> resp.exc # "none",
     nodes  |-> IF resp.exc = "none" THEN resp.nodes ELSE <<>>]

\* Path(i).name : the last non-empty "/"-separated segment.
RECURSIVE StripSlash(_)
StripSlash(s) ==
    IF s # <<>> /\ s[Len(s)] = "/" THEN StripSlash(SubSeq(s, 1, Len(s) - 1)) ELSE s

RECURSIVE LastSegment(_)
LastSegment(s) ==
    IF s = <<>> \/ s[Len(s)] = "/" THEN <<>>
    ELSE Append(LastSegment(SubSeq(s, 1, Len(s) - 1)), s[Len(s)])

PathName(s) == LastSegment(StripSlash(s))

\* The file names a run can write to.
Names ==
    {PathName(urlunparse(ListingUrl.scheme, ListingUrl.netloc) \o h) :
        h \in HrefValues \ {<<>>}}

Absent == [exists |-> FALSE, data |-> <<>>]
OldFile == [exists |-> TRUE, data |-> <<0>>]

\* r.raise_for_status()
raise_for_status(resp) ==
    IF resp.status \in 200..299 THEN "none" ELSE "HTTPStatusError"

\* The error a GET followed by raise_for_status ends in ("none": a 2xx response).
GetError(resp) == IF resp.exc # "none" THEN resp.exc ELSE raise_for_status(resp)

\* except httpx.HTTPError
IsHTTPError(e) == e \in TransportErrors \cup {"HTTPStatusError"}

\* download_file: the bytes, None, or an exception that escapes.
download_file(resp) ==
    LET e == GetError(resp)
    IN  IF e = "none"
        THEN [raised |-> FALSE, isNone |-> FALSE, bytes |-> resp.content]
        ELSE IF IsHTTPError(e)
        THEN [raised |-> FALSE, isNone |-> TRUE, bytes |-> <<>>]
        ELSE [raised |-> TRUE, isNone |-> TRUE, bytes |-> <<>>]

ContentReturnedAlways(dl) == TRUE

\* if dl_bytes:
ContentReturned(dl) == ~dl.isNone /\ dl.bytes # <<>>

IsIOErrorNarrow(e) == e \in OpenErrors

\* except IOError  (IOError is OSError)
IsIOError(e) == e \in OpenErrors \cup WriteErrors

Completed(p) == [msg |-> "Completed write to: ", path |-> p]
Failed(p) == [msg |-> "Failed to write to: ", path |-> p]
NoStatus == [msg |-> "", path |-> <<>>]

write_file_append(content, local_path, fs, io) ==
    [raised |-> FALSE,
     status |-> IF io.err = "none" THEN Completed(local_path) ELSE Failed(local_path),
     fs     |-> IF io.err \in OpenErrors THEN fs
                ELSE [fs EXCEPT ![local_path] =
                        [exists |-> TRUE,
                         data   |-> fs[local_path].data \o
                                    (IF io.err = "none" THEN content
                                     ELSE SubSeq(content, 1, io.written))]]]

\* write_file: open(local_path, "wb") creates or truncates the file; a write
\* that fails after the open leaves the io.written bytes that reached it.
write_file(content, local_path, fs, io) ==
    LET data == IF io.err = "none" THEN content ELSE SubSeq(content, 1, io.written)
        fs2  == IF io.err \in OpenErrors THEN fs
                ELSE [fs EXCEPT ![local_path] = [exists |-> TRUE, data |-> data]]
    IN  IF io.err = "none"
        THEN [raised |-> FALSE, status |-> Completed(local_path), fs |-> fs2]
        ELSE IF IsIOError(io.err)
        THEN [raised |-> FALSE, status |-> Failed(local_path), fs |-> fs2]
        ELSE [raised |-> TRUE, status |-> NoStatus, fs |-> fs2]

\* ------------------------------------------------- environment outcomes
ListingResponses ==
    {[exc |-> e, nodes |-> <<>>] : e \in GetErrors}
    \cup {[exc |-> "none", nodes |-> pg] : pg \in Pages}

\* The page of the module-level request: its links are never used.
TailResponses ==
    {[exc |-> e, nodes |-> <<>>] : e \in GetErrors}
    \cup {[exc |-> "none", nodes |-> <<>>]}

FileResponses ==
    {[exc |-> e, status |-> 0, content |-> <<>>] : e \in GetErrors}
    \cup {[exc |-> "none", status |-> 200, content |-> b] : b \in Bodies}
    \cup {[exc |-> "none", status |-> 404, content |-> <<0>>]}

IoOutcomes(content) ==
    {[err |-> "none", written |-> Len(content)]}
    \cup {[err |-> e, written |-> 0] : e \in OpenErrors}
    \cup {[err |-> e, written |-> k] : e \in WriteErrors, k \in 0..(Len(content) - 1)}

\* ------------------------------------------------------------------ state
VARIABLES
    pc,          \* "main", "collect", "parse", "loop", "write", "module_tail", "exited"
    contains,    \* the filter argument
    page,        \* assemble_links: the anchors of the page (a local, gone on return)
    collected,   \* assemble_links has returned
    links,       \* get_link_data: links
    fnames,      \* get_link_data: fnames
    idx,         \* position of the for loop in zip(links, fnames)
    fcount,      \* get_link_data: fcount
    dl_bytes,    \* get_link_data: dl_bytes
    files,       \* the files of out_dir, by name
    status,      \* the last string write_file returned (and main printed)
    summary,     \* what main printed at lines 111-112
    log,         \* one record per loop iteration begun
    listingFailed, \* the GET of the listing page ended in an exception
    raisedIn,    \* where the exception that ended the run was raised
    exitStatus   \* -1 while running, then the process's exit status

vars == <<pc, contains, page, collected, links, fnames, idx, fcount, dl_bytes,
          files, status, summary, log, listingFailed, raisedIn, exitStatus>>

NoSummary == [printed |-> FALSE, count |-> 0, total |-> 0, failed |-> 0]

Init ==
    /\ pc = "main"
    /\ contains \in Filters
    /\ page = <<>>
    /\ collected = FALSE
    /\ links = <<>>
    /\ fnames = <<>>
    /\ idx = 1
    /\ fcount = 0
    /\ dl_bytes = <<>>
    /\ files = [n \in Names |-> Absent]
    /\ status = NoStatus
    /\ summary = NoSummary
    /\ log = <<>>
    /\ listingFailed = FALSE
    /\ raisedIn = "none"
    /\ exitStatus = -1

\* An uncaught exception: traceback, exit status 1.
Crash(where) ==
    /\ pc' = "exited"
    /\ raisedIn' = where
    /\ exitStatus' = 1

\* main, lines 104-108: out_dir.mkdir(parents=True, exist_ok=False).
Mkdir ==
    /\ pc = "main"
    /\ \E r \in {"created", "exists", "error"} :
         CASE r = "created" ->
                /\ files' = [n \in Names |-> Absent]
                /\ pc' = "collect"
                /\ UNCHANGED <<raisedIn, exitStatus>>
           [] r = "exists" ->
                /\ files' \in [Names -> {Absent, OldFile}]
                /\ pc' = "collect"
                /\ UNCHANGED <<raisedIn, exitStatus>>
           [] r = "error" ->
                /\ Crash("mkdir")
                /\ UNCHANGED files
    /\ UNCHANGED <<contains, page, collected, links, fnames, idx, fcount, dl_bytes,
                   status, summary, log, listingFailed>>

\* assemble_links, lines 21-24, called from get_link_data line 85: the GET.
GetListing ==
    /\ pc = "collect"
    /\ \E resp \in ListingResponses :
         LET got == listing_get(resp)
         IN  /\ listingFailed' = (resp.exc # "none")
             /\ IF got.raised
                THEN /\ Crash("listing")
                     /\ UNCHANGED page
                ELSE /\ page' = got.nodes
                     /\ pc' = "parse"
                     /\ UNCHANGED <<raisedIn, exitStatus>>
    /\ UNCHANGED <<contains, collected, links, fnames, idx, fcount, dl_bytes, files,
                   status, summary, log>>

\* assemble_links, lines 25-29, and get_link_data, lines 85-87.
ParseListing ==
    /\ pc = "parse"
    /\ LET ls == assemble_links(ListingUrl, contains, NoPrefix, page)
       IN  /\ links' = ls
           /\ fnames' = [i \in 1..Len(ls) |-> PathName(ls[i])]
    /\ page' = <<>>
    /\ collected' = TRUE
    /\ idx' = 1
    /\ fcount' = 0
    /\ pc' = "loop"
    /\ UNCHANGED <<contains, dl_bytes, files, status, summary, log, listingFailed,
                   raisedIn, exitStatus>>

\* get_link_data, lines 88-90: one download and the test of its result.
Download ==
    /\ pc = "loop"
    /\ idx <= Len(links)
    /\ \E resp \in FileResponses :
         LET dl == download_file(resp)
             ok2xx == GetError(resp) = "none"
             entry == [i |-> idx, getFailed |-> ~ok2xx,
                       body |-> IF ok2xx THEN resp.content ELSE <<>>,
                       fetch |-> IF dl.raised THEN "raised"
                                 ELSE IF dl.isNone THEN "None" ELSE "bytes",
                       write |-> "skipped"]
         IN  IF dl.raised
             THEN /\ Crash("download")
                  /\ log' = Append(log, entry)
                  /\ UNCHANGED <<idx, dl_bytes>>
             ELSE IF ContentReturned(dl)
             THEN /\ dl_bytes' = dl.bytes
                  /\ pc' = "write"
                  /\ log' = Append(log, [entry EXCEPT !.write = "pending"])
                  /\ UNCHANGED <<idx, raisedIn, exitStatus>>
             ELSE /\ idx' = idx + 1
                  /\ log' = Append(log, entry)
                  /\ UNCHANGED <<pc, dl_bytes, raisedIn, exitStatus>>
    /\ UNCHANGED <<contains, page, collected, links, fnames, fcount, files,
                   status, summary, listingFailed>>

\* get_link_data, lines 91-93: write_file, print its status, count.
Write ==
    /\ pc = "write"
    /\ \E io \in IoOutcomes(dl_bytes) :
         LET w == write_file(dl_bytes, fnames[idx], files, io)
             n == Len(log)
         IN  /\ files' = w.fs
             /\ IF w.raised
                THEN /\ Crash("write")
                     /\ log' = [log EXCEPT ![n].write = "raised"]
                     /\ UNCHANGED <<status, fcount, idx>>
                ELSE /\ status' = w.status
                     /\ fcount' = fcount + 1
                     /\ idx' = idx + 1
                     /\ pc' = "loop"
                     /\ log' = [log EXCEPT
                                  ![n].write = IF io.err = "none" THEN "ok" ELSE "failed"]
                     /\ UNCHANGED <<raisedIn, exitStatus>>
    /\ UNCHANGED <<contains, page, collected, links, fnames, dl_bytes,
                   summary, listingFailed>>

\* get_link_data line 94 and main lines 109-112: return and print the summary.
Return ==
    /\ pc = "loop"
    /\ idx > Len(links)
    /\ summary' = [printed |-> TRUE, count |-> fcount, total |-> Len(links),
                   failed |-> Len(links) - fcount]
    /\ pc' = "module_tail"
    /\ UNCHANGED <<contains, page, collected, links, fnames, idx, fcount, dl_bytes,
                   files, status, log, listingFailed, raisedIn, exitStatus>>

\* Lines 131-137, run after main has returned:
\* gfd_links = assemble_links(url_gfd_cat, contains="_Problem_").
ModuleTail ==
    /\ pc = "module_tail"
    /\ \E resp \in TailResponses :
         IF listing_get(resp).raised
         THEN Crash("module_tail")
         ELSE /\ pc' = "exited"
              /\ exitStatus' = 0
              /\ UNCHANGED raisedIn
    /\ UNCHANGED <<contains, page, collected, links, fnames, idx, fcount, dl_bytes,
                   files, status, summary, log, listingFailed>>

Next == Mkdir \/ GetListing \/ ParseListing \/ Download \/ Write \/ Return \/ ModuleTail

Spec == Init /\ [][Next]_vars

\* ------------------------------------------------------------------ claims
LogIdx == 1..Len(log)
Max(S) == CHOOSE x \in S : \A y \in S : y <= x
LinkPrefix == urlunparse(ListingUrl.scheme, ListingUrl.netloc)

\* C1: whenever main prints the summary, the failure count it prints
\* (total - count) is the number of links minus the number of links whose
\* file write succeeded.
SuccessfulWrites == Cardinality({k \in LogIdx : log[k].write = "ok"})
C1_FailuresAreLinksMinusWrites ==
    summary.printed => summary.failed = Len(links) - SuccessfulWrites

\* C2: once main has returned (the summary is printed), the process exits
\* with status 0, whatever the outcome of a request made after main returns.
C2_ExitsZeroOnCompletion ==
    (pc = "exited" /\ summary.printed) => exitStatus = 0

\* C3: for every failure of the GET of a link, download_file returns None
\* and does not raise, so no run ends in an exception raised by a download.
C3_DownloadNeverRaises ==
    /\ \A k \in LogIdx : log[k].getFailed => log[k].fetch = "None"
    /\ raisedIn # "download"

\* C4: for every link whose GET ends in a 2xx status, whatever the body,
\* write_file is invoked for it, and between iterations the success counter
\* is the number of such links.
C4_EverySuccessfulFetchIsWritten ==
    /\ \A k \in LogIdx :
         ~log[k].getFailed => log[k].write \in {"pending", "ok", "failed"}
    /\ pc = "loop" => fcount = Cardinality({k \in LogIdx : ~log[k].getFailed})

\* C5: an iteration in which download_file returned None does not invoke
\* write_file, changes no file and leaves the success counter alone, and goes
\* on to the next link; the link still counts towards the printed total.
C5_NoneIsSkipped ==
    /\ [](/\ \A k \in LogIdx : log[k].fetch = "None" => log[k].write = "skipped"
          /\ summary.printed =>
               /\ summary.total = Len(links)
               /\ summary.total - summary.count >=
                    Cardinality({k \in LogIdx : log[k].fetch = "None"}))
    /\ [][(Len(log') = Len(log) + 1 /\ log'[Len(log')].fetch = "None") =>
            /\ files' = files
            /\ fcount' = fcount
            /\ status' = status
            /\ pc' = "loop"
            /\ idx' = idx + 1]_vars

C5_Witness ==
    /\ summary.printed
    /\ \E k \in LogIdx : log[k].fetch = "None"
    /\ \E k \in LogIdx : log[k].write = "ok"

Qualifying(nodes) ==
    {i \in 1..Len(nodes) :
        /\ nodes[i].has
        /\ nodes[i].href # <<>>
        /\ StrIn(contains, LinkPrefix \o nodes[i].href)}
C7_LinksAreFilteredAnchors ==
    [][pc = "parse" =>
         LET Q == Qualifying(page)
         IN  /\ Len(links') = Cardinality(Q)
             /\ \A i \in Q :
                  links'[Cardinality({j \in Q : j <= i})] = LinkPrefix \o page[i].href
             /\ \A k \in 1..Len(links') : StrIn(contains, links'[k])]_vars

C7_Witness ==
    /\ collected
    /\ contains = <<"b">>
    /\ Len(links) >= 2
    /\ links[1] = links[2]

OkWrites(n) == {k \in LogIdx : fnames[log[k].i] = n /\ log[k].write = "ok"}
C9_FileHoldsLastSuccessfulWrite ==
    summary.printed =>
        \A n \in Names :
            OkWrites(n) # {} =>
                files[n] = [exists |-> TRUE, data |-> log[Max(OkWrites(n))].body]

\* C9, amended: a successful write_file(content, path) leaves exactly content
\* at path, whether or not a file existed there, and changes no other file;
\* hence a file name holds the bytes of the last link for which write_file was
\* invoked on it, if that write succeeded.
WriteCalls(n) ==
    {k \in LogIdx : fnames[log[k].i] = n /\ log[k].write \in {"ok", "failed"}}
C9_FileHoldsLastWriteIfSuccessful ==
    /\ [](\A n \in Names :
            (WriteCalls(n) # {} /\ log[Max(WriteCalls(n))].write = "ok") =>
                files[n] = [exists |-> TRUE, data |-> log[Max(WriteCalls(n))].body])
    /\ [][(pc = "write" /\ log'[Len(log)].write = "ok") =>
            files' = [files EXCEPT ![fnames[idx]] =
                        [exists |-> TRUE, data |-> dl_bytes]]]_vars

C9_Witness ==
    /\ pc = "exited"
    /\ \E n \in Names : \E j, k \in OkWrites(n) :
         /\ j < k
         /\ k = Max(WriteCalls(n))
         /\ log[j].body # log[k].body
         /\ files[n].data = log[k].body

\* C10: in every run whose listing fetch succeeded, each link is fetched
\* exactly once, in Collector order.
C10_EachLinkFetchedOnceInOrder ==
    (pc = "exited" /\ collected) =>
        /\ Len(log) = Len(links)
        /\ \A k \in LogIdx : log[k].i = k

====
